---- MODULE Spec2Model ----
(***************************************************************************)
(* Maze solver: the three searches of dfs_nopath.py (dfs, bfs, a_star),    *)
(* the neighbour / cost / heuristic oracle and the locators of             *)
(* eight_puzzle.py, and the driver script of dfs_nopath.py.                *)
(*                                                                         *)
(* Representation.                                                         *)
(*   maze    a sequence of rows, each a sequence of one-character labels;  *)
(*           Python's maze[x][y] is maze[x+1][y+1] here.                   *)
(*   cell    the tuple <<x, y>> with the 0-based indices of the source.    *)
(*   None    the empty tuple <<>> (different from every cell).             *)
(*   numbers calculate_cost can return n + 0.5, so every Python number     *)
(*           that holds a cost or a priority is kept in units of 0.5:      *)
(*           Num(n) is the Python number n.                                *)
(***************************************************************************)
EXTENDS Integers, Sequences, FiniteSets, TLC

VARIABLES mode, pc, maze, generated, start, goal,
          stack, queue, pqueue, visited, cost_so_far, results, extracted

vars == <<mode, pc, maze, generated, start, goal,
          stack, queue, pqueue, visited, cost_so_far, results, extracted>>

-----------------------------------------------------------------------------
(* Bounds of the checked instances.                                        *)

MaxCells == 6
MaxSpecial == 2

-----------------------------------------------------------------------------
(* Values.                                                                 *)

None == <<>>

Num(n) == 2 * n

Abs(n) == IF n < 0 THEN -n ELSE n

Wall == "w"
Marker == "c"
Star == "*"

Rows(m) == Len(m)
Cols(m) == Len(m[1])
Cells(m) == {<<x, y>> : x \in 0..(Rows(m) - 1), y \in 0..(Cols(m) - 1)}
Label(m, cell) == m[cell[1] + 1][cell[2] + 1]
InGrid(m, cell) == cell # None /\ cell \in Cells(m)

-----------------------------------------------------------------------------
(* eight_puzzle.py: the oracle.                                            *)

InBounds(m, n) ==
    /\ 0 <= n[1] /\ n[1] < Rows(m)
    /\ 0 <= n[2] /\ n[2] < Cols(m)

(* The candidates of line 68 in the order left, right, up, down.           *)
Candidates_left_first(state) ==
    << <<state[1], state[2] - 1>>, <<state[1], state[2] + 1>>,
       <<state[1] - 1, state[2]>>, <<state[1] + 1, state[2]>> >>

Candidates(state) ==
    << <<state[1] - 1, state[2]>>, <<state[1] + 1, state[2]>>,
       <<state[1], state[2] - 1>>, <<state[1], state[2] + 1>> >>

(* The label Python's maze[nx][ny] yields: a negative index counts from    *)
(* the end of the list.                                                    *)
Subscript(m, n) ==
    LET x == IF n[1] < 0 THEN n[1] + Rows(m) ELSE n[1]
        y == IF n[2] < 0 THEN n[2] + Cols(m) ELSE n[2]
    IN  m[x + 1][y + 1]

(* The condition of line 69 without its two lower bounds 0 <= nx and       *)
(* 0 <= ny: the label of a candidate at index -1 is read from the other    *)
(* end of the grid.                                                        *)
Passable_without_lower_bounds(m, n) ==
    /\ n[1] < Rows(m) /\ n[2] < Cols(m)
    /\ Subscript(m, n) # Wall

Passable(m, n) == InBounds(m, n) /\ Label(m, n) # Wall

(* The candidates at which line 69 evaluates maze[nx][ny]: `and` evaluates *)
(* its third operand only when the two bound tests before it hold.         *)
subscripted(m, state) ==
    SelectSeq(Candidates(state), LAMBDA n : InBounds(m, n))

(* get_neighbors without the wall test of line 69.                         *)
get_neighbors_ignoring_walls(m, state) ==
    SelectSeq(Candidates(state), LAMBDA n : InBounds(m, n))

get_neighbors(m, state) ==
    SelectSeq(Candidates(state), LAMBDA n : Passable(m, n))

cost_map(label) ==
    CASE label = "1" -> 1
      [] label = "2" -> 2
      [] label = "3" -> 3
      [] label = "4" -> 4
      [] label = " " -> 1
      [] OTHER -> 1

(* calculate_cost looking up the label of the cell the move leaves.        *)
calculate_cost_of_origin(m, state, neighbor) ==
    Num(cost_map(Label(m, state)))
      + (IF state[1] # neighbor[1] /\ state[2] # neighbor[2] THEN 1 ELSE 0)

calculate_cost(m, state, neighbor) ==
    Num(cost_map(Label(m, neighbor)))
      + (IF state[1] # neighbor[1] /\ state[2] # neighbor[2] THEN 1 ELSE 0)

(* A heuristic that overestimates: four times the Manhattan distance.      *)
heuristic_overestimating(g, neighbor) ==
    4 * (Abs(g[1] - neighbor[1]) + Abs(g[2] - neighbor[2]))

(* A heuristic that counts every row twice.                                *)
heuristic_doubled_rows(g, neighbor) ==
    2 * Abs(g[1] - neighbor[1]) + Abs(g[2] - neighbor[2])

heuristic(g, neighbor) == Abs(g[1] - neighbor[1]) + Abs(g[2] - neighbor[2])

get_start_state(m) ==
    LET first_row == m[1]
        hits == {j \in 0..(Len(first_row) - 1) : first_row[j + 1] = Marker}
    IN  IF hits = {} THEN None
        ELSE <<0, CHOOSE j \in hits : \A k \in hits : j <= k>>

(* get_goal_state scanning the last row from its first column.            *)
get_goal_state_from_left(m) ==
    LET last_row == m[Len(m)]
        hits == {j \in 0..(Len(last_row) - 1) : last_row[j + 1] = Marker}
    IN  IF hits = {} THEN None
        ELSE <<Len(m) - 1, CHOOSE j \in hits : \A k \in hits : j <= k>>

get_goal_state(m) ==
    LET last_row == m[Len(m)]
        hits == {j \in 0..(Len(last_row) - 1) : last_row[j + 1] = Marker}
    IN  IF hits = {} THEN None
        ELSE <<Len(m) - 1, CHOOSE j \in hits : \A k \in hits : j >= k>>

SetLabel(m, cell, label) ==
    [m EXCEPT ![cell[1] + 1] = [@ EXCEPT ![cell[2] + 1] = label]]

RECURSIVE print_maze_with_path(_, _)
print_maze_with_path(m, path) ==
    IF path = <<>> THEN m
    ELSE print_maze_with_path(SetLabel(m, Head(path), Star), Tail(path))

-----------------------------------------------------------------------------
(* dfs_nopath.py: results of a call.                                       *)
(*   kind "pending"    the call has not returned                           *)
(*   kind "return"     the call returned (path, cost); path None is <<>>   *)
(*   kind "TypeError"  the call raised TypeError                           *)

Pending == [kind |-> "pending", path |-> None, cost |-> 0]
Return(path, cost) == [kind |-> "return", path |-> path, cost |-> cost]
NoPath == Return(None, Num(0))
Raise == [kind |-> "TypeError", path |-> None, cost |-> 0]

Algorithms == {"dfs", "bfs", "a_star"}

(* Where control goes when the call of alg ends with result r: the driver  *)
(* shows the path (lines 144-148, 154-157, 163-166) or lands in its        *)
(* handler (line 169); a direct call sequence goes on to the next call.    *)
After(alg, r) ==
    IF mode = "main"
    THEN IF r.kind = "TypeError" THEN "failed"
         ELSE CASE alg = "dfs" -> "show_dfs"
                [] alg = "bfs" -> "show_bfs"
                [] alg = "a_star" -> "show_a_star"
    ELSE CASE alg = "dfs" -> "call_bfs"
           [] alg = "bfs" -> "call_a_star"
           [] alg = "a_star" -> "done"

EmptyMap == [c \in {} |-> 0]

(* A variant of stack.pop() that leaves the entry on the stack.            *)
pop_keeping(s) == [entry |-> s[Len(s)], rest |-> s]

(* stack.pop() of line 24: the newest entry and what is left.              *)
pop(s) == [entry |-> s[Len(s)], rest |-> SubSeq(s, 1, Len(s) - 1)]

(* A variant of queue.pop(0) taking the newest entry, not the oldest.      *)
pop0_newest(q) == [entry |-> q[Len(q)], rest |-> SubSeq(q, 1, Len(q) - 1)]

(* queue.pop(0) of line 58: the oldest entry and what is left.             *)
pop0(q) == [entry |-> Head(q), rest |-> Tail(q)]

(* Lines 35 and 69 pushing the path without the neighbour appended.        *)
Push_same_path(frontier, path, neighbors) ==
    frontier \o [i \in 1..Len(neighbors) |-> <<neighbors[i], path>>]

(* Lines 35 and 69 inserting the new entries before the old ones.          *)
Push_in_front(frontier, path, neighbors) ==
    [i \in 1..Len(neighbors) |-> <<neighbors[i], path \o <<neighbors[i]>> >>] \o frontier

Push(frontier, path, neighbors) ==
    frontier \o [i \in 1..Len(neighbors) |-> <<neighbors[i], path \o <<neighbors[i]>> >>]

Finish(alg, r) ==
    /\ results' = [results EXCEPT ![alg] = r]
    /\ pc' = After(alg, r)

-----------------------------------------------------------------------------
(* dfs (dfs_nopath.py lines 6-36).                                         *)

(* Line 18 seeding the stack with an empty path.                           *)
CallDfs_empty_path ==
    /\ pc = "call_dfs"
    /\ stack' = << <<start, <<>> >> >>
    /\ visited' = {}
    /\ extracted' = <<>>
    /\ pc' = "dfs"
    /\ UNCHANGED <<mode, maze, generated, start, goal, queue, pqueue,
                   cost_so_far, results>>

CallDfs ==
    /\ pc = "call_dfs"
    /\ stack' = << <<start, <<start>> >> >>
    /\ visited' = {}
    /\ extracted' = <<>>
    /\ pc' = "dfs"
    /\ UNCHANGED <<mode, maze, generated, start, goal, queue, pqueue,
                   cost_so_far, results>>

(* The iteration without the test of line 26: every entry taken is         *)
(* expanded, visited or not.                                               *)
DfsIteration_without_visited_test ==
    /\ pc = "dfs"
    /\ stack # <<>>
    /\ extracted' = Append(extracted, pop(stack).entry)
    /\ LET vertex == pop(stack).entry[1]
           path == pop(stack).entry[2]
           popped == pop(stack).rest
       IN  IF vertex = goal
           THEN /\ Finish("dfs", Return(path, Num(Len(path))))
                /\ stack' = popped
                /\ UNCHANGED visited
           ELSE /\ visited' = visited \cup {vertex}
                /\ IF vertex = None
                   THEN /\ Finish("dfs", Raise)
                        /\ stack' = popped
                   ELSE /\ stack' = Push(popped, path, get_neighbors(maze, vertex))
                        /\ UNCHANGED <<pc, results>>

(* One iteration of the while loop of line 22, on the variables of dfs.    *)
DfsIteration ==
    /\ pc = "dfs"
    /\ stack # <<>>
    /\ extracted' = Append(extracted, pop(stack).entry)
    /\ LET vertex == pop(stack).entry[1]
           path == pop(stack).entry[2]
           popped == pop(stack).rest
       IN  IF vertex \notin visited
           THEN IF vertex = goal
                THEN /\ Finish("dfs", Return(path, Num(Len(path))))
                     /\ stack' = popped
                     /\ UNCHANGED visited
                ELSE /\ visited' = visited \cup {vertex}
                     /\ IF vertex = None
                        THEN /\ Finish("dfs", Raise)
                             /\ stack' = popped
                        ELSE /\ stack' = Push(popped, path, get_neighbors(maze, vertex))
                             /\ UNCHANGED <<pc, results>>
           ELSE /\ stack' = popped
                /\ UNCHANGED <<pc, results, visited>>

(* The iteration marking the vertex it takes in the grid itself.           *)
DfsStep_marking_grid ==
    /\ DfsIteration
    /\ maze' = IF InGrid(maze, pop(stack).entry[1])
               THEN SetLabel(maze, pop(stack).entry[1], Star)
               ELSE maze
    /\ UNCHANGED <<mode, generated, start, goal, queue, pqueue, cost_so_far>>

DfsStep ==
    /\ DfsIteration
    /\ UNCHANGED <<mode, maze, generated, start, goal, queue, pqueue, cost_so_far>>

(* Line 36: the loop ended without reaching the goal.                      *)
DfsExhausted ==
    /\ pc = "dfs"
    /\ stack = <<>>
    /\ Finish("dfs", NoPath)
    /\ UNCHANGED <<extracted, mode, maze, generated, start, goal, stack, queue, pqueue,
                   visited, cost_so_far>>

-----------------------------------------------------------------------------
(* bfs (dfs_nopath.py lines 38-70).                                        *)

CallBfs ==
    /\ pc = "call_bfs"
    /\ queue' = << <<start, <<start>> >> >>
    /\ visited' = {}
    /\ extracted' = <<>>
    /\ pc' = "bfs"
    /\ UNCHANGED <<mode, maze, generated, start, goal, stack, pqueue,
                   cost_so_far, results>>

(* The iteration without the test of line 60: every entry taken is         *)
(* expanded, visited or not.                                               *)
BfsStep_without_visited_test ==
    /\ pc = "bfs"
    /\ queue # <<>>
    /\ extracted' = Append(extracted, pop0(queue).entry)
    /\ LET vertex == pop0(queue).entry[1]
           path == pop0(queue).entry[2]
           popped == pop0(queue).rest
       IN  IF vertex = goal
           THEN /\ Finish("bfs", Return(path, Num(Len(path))))
                /\ queue' = popped
                /\ UNCHANGED visited
           ELSE /\ visited' = visited \cup {vertex}
                /\ IF vertex = None
                   THEN /\ Finish("bfs", Raise)
                        /\ queue' = popped
                   ELSE /\ queue' = Push(popped, path, get_neighbors(maze, vertex))
                        /\ UNCHANGED <<pc, results>>
    /\ UNCHANGED <<mode, maze, generated, start, goal, stack, pqueue, cost_so_far>>

(* One iteration of the while loop of line 56.                             *)
BfsStep ==
    /\ pc = "bfs"
    /\ queue # <<>>
    /\ extracted' = Append(extracted, pop0(queue).entry)
    /\ LET vertex == pop0(queue).entry[1]
           path == pop0(queue).entry[2]
           popped == pop0(queue).rest
       IN  IF vertex \notin visited
           THEN IF vertex = goal
                THEN /\ Finish("bfs", Return(path, Num(Len(path))))
                     /\ queue' = popped
                     /\ UNCHANGED visited
                ELSE /\ visited' = visited \cup {vertex}
                     /\ IF vertex = None
                        THEN /\ Finish("bfs", Raise)
                             /\ queue' = popped
                        ELSE /\ queue' = Push(popped, path, get_neighbors(maze, vertex))
                             /\ UNCHANGED <<pc, results>>
           ELSE /\ queue' = popped
                /\ UNCHANGED <<pc, results, visited>>
    /\ UNCHANGED <<mode, maze, generated, start, goal, stack, pqueue, cost_so_far>>

(* Line 70.                                                                *)
BfsExhausted ==
    /\ pc = "bfs"
    /\ queue = <<>>
    /\ Finish("bfs", NoPath)
    /\ UNCHANGED <<extracted, mode, maze, generated, start, goal, stack, queue, pqueue,
                   visited, cost_so_far>>

-----------------------------------------------------------------------------
(* a_star (dfs_nopath.py lines 72-109).                                    *)
(* queue.PriorityQueue hands out its least entry; entries are the tuples   *)
(* (priority, state, path), which Python compares field by field, tuples   *)
(* and lists lexicographically.  pqueue holds the entries in ascending     *)
(* order, so get() takes the head.                                         *)

CellLess(a, b) == a[1] < b[1] \/ (a[1] = b[1] /\ a[2] < b[2])

RECURSIVE PathLess(_, _)
PathLess(p, q) ==
    IF p = <<>> THEN q # <<>>
    ELSE IF q = <<>> THEN FALSE
    ELSE IF Head(p) = Head(q) THEN PathLess(Tail(p), Tail(q))
    ELSE CellLess(Head(p), Head(q))

EntryLess(a, b) ==
    \/ a[1] < b[1]
    \/ /\ a[1] = b[1]
       /\ \/ CellLess(a[2], b[2])
          \/ a[2] = b[2] /\ PathLess(a[3], b[3])

(* A put() that appends, as a plain FIFO queue would.                      *)
put_at_end(q, entry) == Append(q, entry)

put(q, entry) ==
    LET k == Cardinality({i \in 1..Len(q) : ~EntryLess(entry, q[i])})
    IN  SubSeq(q, 1, k) \o <<entry>> \o SubSeq(q, k + 1, Len(q))

get(q) == [entry |-> Head(q), rest |-> Tail(q)]

(* The for loop of lines 98-108 without the condition of line 102: every   *)
(* neighbour is recorded and pushed.                                       *)
RECURSIVE Relax_unconditional(_, _, _, _, _, _, _)
Relax_unconditional(m, g, state, path, neighbors, costs, q) ==
    IF neighbors = <<>> THEN [cost_so_far |-> costs, queue |-> q, raised |-> FALSE]
    ELSE LET neighbor == Head(neighbors)
             new_cost == costs[state] + calculate_cost(m, state, neighbor)
             updated == (neighbor :> new_cost) @@ costs
         IN  IF g = None
             THEN [cost_so_far |-> updated, queue |-> q, raised |-> TRUE]
             ELSE Relax_unconditional(m, g, state, path, Tail(neighbors), updated,
                      put(q, <<new_cost + Num(heuristic(g, neighbor)), neighbor,
                               path \o <<neighbor>> >>))

(* The for loop of lines 98-108 over the neighbours still to handle.       *)
(* heuristic(None, neighbor) subscripts None: a TypeError, raised after    *)
(* line 104 recorded the cost.                                             *)
RECURSIVE Relax(_, _, _, _, _, _, _)
Relax(m, g, state, path, neighbors, costs, q) ==
    IF neighbors = <<>> THEN [cost_so_far |-> costs, queue |-> q, raised |-> FALSE]
    ELSE LET neighbor == Head(neighbors)
             new_cost == costs[state] + calculate_cost(m, state, neighbor)
         IN  IF neighbor \notin DOMAIN costs \/ new_cost < costs[neighbor]
             THEN LET updated == (neighbor :> new_cost) @@ costs
                  IN  IF g = None
                      THEN [cost_so_far |-> updated, queue |-> q, raised |-> TRUE]
                      ELSE LET priority == new_cost + Num(heuristic(g, neighbor))
                           IN  Relax(m, g, state, path, Tail(neighbors), updated,
                                     put(q, <<priority, neighbor, path \o <<neighbor>> >>))
             ELSE Relax(m, g, state, path, Tail(neighbors), costs, q)

CallAStar ==
    /\ pc = "call_a_star"
    /\ pqueue' = << <<Num(0), start, <<start>> >> >>
    /\ cost_so_far' = (start :> Num(0))
    /\ extracted' = <<>>
    /\ pc' = "a_star"
    /\ UNCHANGED <<mode, maze, generated, start, goal, stack, queue, visited, results>>

(* The iteration with line 96 returning len(path), as dfs and bfs do.      *)
AStarStep_returning_length ==
    /\ pc = "a_star"
    /\ pqueue # <<>>
    /\ extracted' = Append(extracted, get(pqueue).entry)
    /\ LET state == get(pqueue).entry[2]
           path == get(pqueue).entry[3]
           rest == get(pqueue).rest
       IN  IF state = goal
           THEN /\ Finish("a_star", Return(path, Num(Len(path))))
                /\ pqueue' = rest
                /\ UNCHANGED cost_so_far
           ELSE IF state = None
           THEN /\ Finish("a_star", Raise)
                /\ pqueue' = rest
                /\ UNCHANGED cost_so_far
           ELSE LET r == Relax(maze, goal, state, path, get_neighbors(maze, state),
                               cost_so_far, rest)
                IN  /\ cost_so_far' = r.cost_so_far
                    /\ pqueue' = r.queue
                    /\ IF r.raised THEN Finish("a_star", Raise)
                       ELSE UNCHANGED <<pc, results>>
    /\ UNCHANGED <<mode, maze, generated, start, goal, stack, queue, visited>>

(* One iteration of the while loop of line 92.                             *)
AStarStep ==
    /\ pc = "a_star"
    /\ pqueue # <<>>
    /\ extracted' = Append(extracted, get(pqueue).entry)
    /\ LET state == get(pqueue).entry[2]
           path == get(pqueue).entry[3]
           rest == get(pqueue).rest
       IN  IF state = goal
           THEN /\ Finish("a_star", Return(path, cost_so_far[state]))
                /\ pqueue' = rest
                /\ UNCHANGED cost_so_far
           ELSE IF state = None
           THEN /\ Finish("a_star", Raise)
                /\ pqueue' = rest
                /\ UNCHANGED cost_so_far
           ELSE LET r == Relax(maze, goal, state, path, get_neighbors(maze, state),
                               cost_so_far, rest)
                IN  /\ cost_so_far' = r.cost_so_far
                    /\ pqueue' = r.queue
                    /\ IF r.raised THEN Finish("a_star", Raise)
                       ELSE UNCHANGED <<pc, results>>
    /\ UNCHANGED <<mode, maze, generated, start, goal, stack, queue, visited>>

(* Line 109.                                                               *)
AStarExhausted ==
    /\ pc = "a_star"
    /\ pqueue = <<>>
    /\ Finish("a_star", NoPath)
    /\ UNCHANGED <<extracted, mode, maze, generated, start, goal, stack, queue, pqueue,
                   visited, cost_so_far>>

-----------------------------------------------------------------------------
(* The driver (dfs_nopath.py lines 111-170).                               *)

(* Lines 138-139.                                                          *)
Locate ==
    /\ pc = "locate"
    /\ start' = get_start_state(maze)
    /\ goal' = get_goal_state(maze)
    /\ pc' = "call_dfs"
    /\ UNCHANGED <<extracted, mode, maze, generated, stack, queue, pqueue, visited,
                   cost_so_far, results>>

Shown == [show_dfs |-> "dfs", show_bfs |-> "bfs", show_a_star |-> "a_star"]
Then == [show_dfs |-> "call_bfs", show_bfs |-> "call_a_star", show_a_star |-> "done"]

(* Lines 144-148, 154-157, 163-166: len(path) and print_maze_with_path.    *)
(* len(None) raises TypeError, which line 169 handles.                     *)
ShowPath ==
    /\ pc \in DOMAIN Shown
    /\ IF results[Shown[pc]].path = None
       THEN pc' = "failed" /\ UNCHANGED maze
       ELSE /\ maze' = print_maze_with_path(maze, results[Shown[pc]].path)
            /\ pc' = Then[pc]
    /\ UNCHANGED <<extracted, mode, generated, start, goal, stack, queue, pqueue, visited,
                   cost_so_far, results>>

-----------------------------------------------------------------------------
(* The inputs.                                                             *)

(* A grid of corridor cells in which the cells of DOMAIN special carry     *)
(* the label special gives them.                                           *)
Grid(rows, cols, special) ==
    [x \in 1..rows |->
        [y \in 1..cols |->
            IF <<x - 1, y - 1>> \in DOMAIN special THEN special[<<x - 1, y - 1>>]
            ELSE Marker]]

SpecialLabels == {Wall, "2", "4"}

Shapes == {s \in (1..MaxCells) \X (1..MaxCells) : s[1] * s[2] <= MaxCells}

AllCells(s) == (0..(s[1] - 1)) \X (0..(s[2] - 1))

(* The example of the specification, section 8.                            *)
ExampleGrid ==
    << <<"c", " ", "w">>,
       <<" ", " ", " ">>,
       <<"w", " ", "c">> >>

Grids ==
    {ExampleGrid} \cup
    UNION {UNION { {Grid(s[1], s[2], special) : special \in [cells -> SpecialLabels]} :
                   cells \in {c \in SUBSET AllCells(s) : Cardinality(c) <= MaxSpecial}} :
           s \in Shapes}

(* generate_maze is not part of the sources; its result has a marker in    *)
(* the first row and one in the last row.                                  *)
generate_maze == {m \in Grids : get_start_state(m) # None /\ get_goal_state(m) # None}

Init ==
    /\ \/ /\ mode = "call"
          /\ maze \in Grids
          /\ start \in Cells(maze) \cup {None}
          /\ goal \in Cells(maze) \cup {None}
          /\ pc = "call_dfs"
       \/ /\ mode = "main"
          /\ maze \in generate_maze
          /\ start = None
          /\ goal = None
          /\ pc = "locate"
    /\ generated = maze
    /\ stack = <<>>
    /\ queue = <<>>
    /\ pqueue = <<>>
    /\ visited = {}
    /\ cost_so_far = EmptyMap
    /\ results = [a \in Algorithms |-> Pending]
    /\ extracted = <<>>

Next ==
    \/ CallDfs \/ DfsStep \/ DfsExhausted
    \/ CallBfs \/ BfsStep \/ BfsExhausted
    \/ CallAStar \/ AStarStep \/ AStarExhausted
    \/ Locate \/ ShowPath

Spec == Init /\ [][Next]_vars

-----------------------------------------------------------------------------
(* The functions of eight_puzzle.py called on their own.  Here maze, start *)
(* and goal are the arguments, with labels drawn from everything cost_map  *)
(* and get_neighbors tell apart, and results is the sequence of the calls  *)
(* made, each with the value it returned.                                  *)

MaxOracleCells == 4

OracleLabels == {Wall, "1", "2", "3", "4", " ", Star}

OracleShapes == {s \in (1..MaxOracleCells) \X (1..MaxOracleCells) :
                    s[1] * s[2] <= MaxOracleCells}

(* A 3x3 grid with every kind of label around an open centre.              *)
NumberedGrid ==
    << <<"c", "1", "w">>,
       <<"2", " ", "3">>,
       <<"*", "4", "c">> >>

OracleGrids ==
    {ExampleGrid, NumberedGrid} \cup
    UNION {UNION { {Grid(s[1], s[2], special) : special \in [cells -> OracleLabels]} :
                   cells \in {c \in SUBSET AllCells(s) : Cardinality(c) <= MaxSpecial}} :
           s \in OracleShapes}

OracleInit ==
    /\ mode = "oracle"
    /\ maze \in OracleGrids
    /\ start \in Cells(maze)
    /\ goal \in Cells(maze)
    /\ pc = "oracle"
    /\ generated = maze
    /\ stack = <<>>
    /\ queue = <<>>
    /\ pqueue = <<>>
    /\ visited = {}
    /\ cost_so_far = EmptyMap
    /\ results = <<>>
    /\ extracted = <<>>

Called(fn, value, next) ==
    /\ results' = Append(results, [fn |-> fn, returned |-> value])
    /\ pc' = next
    /\ UNCHANGED <<mode, maze, generated, start, goal, stack, queue, pqueue,
                   visited, cost_so_far, extracted>>

(* get_neighbors(maze, start), and the same call once more.                *)
Call_get_neighbors ==
    /\ pc \in {"oracle", "get_neighbors"}
    /\ Called("get_neighbors", get_neighbors(maze, start),
              IF pc = "oracle" THEN "get_neighbors" ELSE "get_neighbors_again")

(* calculate_cost(maze, start, goal).                                      *)
Call_calculate_cost ==
    /\ pc = "oracle"
    /\ Called("calculate_cost", calculate_cost(maze, start, goal), "calculate_cost")

(* heuristic(goal, start).                                                 *)
Call_heuristic ==
    /\ pc = "oracle"
    /\ Called("heuristic", Num(heuristic(goal, start)), "heuristic")

Call_get_start_state ==
    /\ pc = "oracle"
    /\ Called("get_start_state", get_start_state(maze), "get_start_state")

(* get_goal_state(maze), on its own or after get_start_state(maze) as in   *)
(* lines 138-139 of the driver.                                            *)
Call_get_goal_state ==
    /\ pc \in {"oracle", "get_start_state"}
    /\ Called("get_goal_state", get_goal_state(maze), "get_goal_state")

OracleNext ==
    \/ Call_get_neighbors \/ Call_calculate_cost \/ Call_heuristic
    \/ Call_get_start_state \/ Call_get_goal_state

Oracle == OracleInit /\ [][OracleNext]_vars

-----------------------------------------------------------------------------
(* What the properties below are stated with.                              *)

(* The call of alg has just ended: control is where After sends it, and    *)
(* maze is still the grid the call has read.                               *)
AtReturn(alg) ==
    /\ pc \notin {"dfs", "bfs", "a_star"}
    /\ results[alg].kind # "pending"
    /\ pc = After(alg, results[alg])

(* A non-wall orthogonal move from a to b.                                 *)
Move(m, a, b) ==
    /\ b \in Cells(m)
    /\ Label(m, b) # Wall
    /\ Abs(a[1] - b[1]) + Abs(a[2] - b[2]) = 1

RECURSIVE Closure(_, _)
Closure(m, S) ==
    LET T == S \cup {b \in Cells(m) : \E a \in S : Move(m, a, b)}
    IN  IF T = S THEN S ELSE Closure(m, T)

Reachable(m, s) == Closure(m, {s})

RECURSIVE Layers(_, _, _, _)
Layers(m, S, g, k) ==
    IF g \in S THEN k
    ELSE Layers(m, S \cup {b \in Cells(m) : \E a \in S : Move(m, a, b)}, g, k + 1)

(* The least number of moves from s to g, for g reachable from s.          *)
Distance(m, s, g) == Layers(m, {s}, g, 0)

Least(S) == CHOOSE x \in S : \A y \in S : x <= y

RECURSIVE Cheapest(_, _)
Cheapest(m, d) ==
    LET known == DOMAIN d
        next == [c \in known \cup {b \in Cells(m) : \E a \in known : Move(m, a, b)} |->
                    Least((IF c \in known THEN {d[c]} ELSE {}) \cup
                          {d[a] + calculate_cost(m, a, c) : a \in {a \in known : Move(m, a, c)}})]
    IN  IF next = d THEN d ELSE Cheapest(m, next)

(* The least summed calculate_cost over the move sequences from s to g,    *)
(* for g reachable from s.                                                 *)
MinCost(m, s, g) == Cheapest(m, (s :> Num(0)))[g]

RECURSIVE PathCost(_, _)
PathCost(m, p) ==
    IF Len(p) <= 1 THEN Num(0)
    ELSE calculate_cost(m, p[1], p[2]) + PathCost(m, Tail(p))

IsIn(x, seq) == \E i \in 1..Len(seq) : seq[i] = x

ValidPath(m, p, s, g) ==
    /\ p # None
    /\ p[1] = s
    /\ p[Len(p)] = g
    /\ \A i \in 1..(Len(p) - 1) : IsIn(p[i + 1], get_neighbors(m, p[i]))

Solvable == InGrid(maze, start) /\ InGrid(maze, goal) /\ goal \in Reachable(maze, start)

Unsolvable == InGrid(maze, start) /\ InGrid(maze, goal) /\ goal \notin Reachable(maze, start)

-----------------------------------------------------------------------------
(* C1: whenever the goal is reachable from the start, each of dfs, bfs and *)
(* a_star returns a path that begins with start, ends with goal, and in    *)
(* which every cell is followed by one of its get_neighbors.               *)
C1_ReturnedPathIsValid ==
    \A alg \in Algorithms :
        (AtReturn(alg) /\ Solvable) =>
            /\ results[alg].kind = "return"
            /\ ValidPath(maze, results[alg].path, start, goal)

(* All three calls have returned paths for a reachable goal, and the       *)
(* paths differ between the searches.                                      *)
C1_Witness ==
    /\ mode = "call" /\ pc = "done" /\ Solvable
    /\ Len(results["dfs"].path) > Len(results["bfs"].path)
    /\ Len(results["a_star"].path) > Len(results["bfs"].path)
    /\ Len(results["bfs"].path) >= 3

-----------------------------------------------------------------------------
(* C2: whenever the goal is reachable, the cost a_star returns is the      *)
(* least summed calculate_cost over all move sequences from start to goal, *)
(* and so at most the summed cost of the paths dfs and bfs return for the  *)
(* same grid, start and goal.                                              *)
C2_AStarCostIsOptimal ==
    (AtReturn("a_star") /\ Solvable) =>
        /\ results["a_star"].kind = "return"
        /\ results["a_star"].path # None
        /\ results["a_star"].cost = MinCost(maze, start, goal)
        /\ mode = "call" =>
              \A alg \in {"dfs", "bfs"} :
                  /\ results[alg].path # None
                  /\ results["a_star"].cost <= PathCost(maze, results[alg].path)

(* a_star's detour through more cells is cheaper than the paths of dfs     *)
(* and of bfs.                                                             *)
C2_Witness ==
    /\ mode = "call" /\ pc = "done" /\ Solvable
    /\ results["a_star"].cost < PathCost(maze, results["bfs"].path)
    /\ results["a_star"].cost < PathCost(maze, results["dfs"].path)
    /\ Len(results["a_star"].path) > Len(results["bfs"].path)

(* C3: whenever the goal is reachable, the path bfs returns has the least  *)
(* number of moves of all move sequences from start to goal; it is no      *)
(* longer than the paths dfs and a_star return for the same grid, start    *)
(* and goal.                                                               *)
C3_BfsPathIsShortest ==
    /\ (AtReturn("bfs") /\ Solvable) =>
          /\ results["bfs"].path # None
          /\ Len(results["bfs"].path) - 1 = Distance(maze, start, goal)
    /\ (mode = "call" /\ pc = "done" /\ Solvable) =>
          \A alg \in {"dfs", "a_star"} :
              /\ results[alg].path # None
              /\ Len(results["bfs"].path) <= Len(results[alg].path)

(* bfs has returned a path of several moves that is strictly shorter than  *)
(* the path of dfs.                                                        *)
C3_Witness ==
    /\ mode = "call" /\ pc = "done" /\ Solvable
    /\ Len(results["bfs"].path) >= 4
    /\ Len(results["bfs"].path) = Distance(maze, start, goal) + 1
    /\ Len(results["bfs"].path) < Len(results["dfs"].path)

(* C4: when the goal is not reachable from the start, each of dfs, bfs and *)
(* a_star returns (None, 0).                                               *)
C4_UnreachableReturnsNone ==
    \A alg \in Algorithms :
        (AtReturn(alg) /\ Unsolvable) => results[alg] = Return(None, Num(0))

(* All three calls have ended for a goal that is an open cell cut off by   *)
(* walls from a start that has other cells to explore.                     *)
C4_Witness ==
    /\ mode = "call" /\ pc = "done" /\ Unsolvable
    /\ Label(maze, goal) # Wall /\ Label(maze, start) # Wall
    /\ Cardinality(Reachable(maze, start)) >= 3
    /\ \A alg \in Algorithms : results[alg] = Return(None, Num(0))

-----------------------------------------------------------------------------
(* C5: every search terminates.  Each loop has a rank, a pair of naturals  *)
(* ordered lexicographically, that every iteration after which the loop    *)
(* goes on makes strictly smaller: for dfs and bfs the number of cells not *)
(* yet visited and the length of the frontier; for a_star the sum of the   *)
(* recorded costs (a cell without a recorded cost counting as more than    *)
(* any cost that can be recorded) and the length of the queue.  a_star has *)
(* no closed set and may extract a cell again, but it pushes only when a   *)
(* recorded cost gets smaller.                                             *)
Universe == Cells(maze) \cup {start}

RECURSIVE Sum(_, _)
Sum(f, S) ==
    IF S = {} THEN 0
    ELSE LET x == CHOOSE x \in S : TRUE IN f[x] + Sum(f, S \ {x})

Unrecorded == Num(4) * Cardinality(Universe) + 1

RecordedCosts ==
    [c \in Universe |-> IF c \in DOMAIN cost_so_far THEN cost_so_far[c] ELSE Unrecorded]

Rank(alg) ==
    CASE alg = "dfs" -> <<Cardinality(Universe \ visited), Len(stack)>>
      [] alg = "bfs" -> <<Cardinality(Universe \ visited), Len(queue)>>
      [] alg = "a_star" -> <<Sum(RecordedCosts, Universe), Len(pqueue)>>

Smaller(r, s) == r[1] < s[1] \/ (r[1] = s[1] /\ r[2] < s[2])

Decreases(alg) == (pc = alg /\ pc' = alg) => Smaller(Rank(alg)', Rank(alg))

C5_EverySearchTerminates ==
    [][Decreases("dfs") /\ Decreases("bfs") /\ Decreases("a_star")]_vars

(* a_star has returned a path after extracting some cell twice.            *)
C5_Witness ==
    /\ pc = "done"
    /\ results["a_star"].kind = "return"
    /\ results["a_star"].path # None
    /\ \E i, j \in 1..Len(extracted) : i < j /\ extracted[i][2] = extracted[j][2]

-----------------------------------------------------------------------------
(* C6: a call with start or goal None refuses to search and signals an     *)
(* invalid input: it neither returns a result nor raises the TypeError of  *)
(* unpacking or subscripting None.                                         *)
C6_NoneIsRefused ==
    (mode = "call" /\ (start = None \/ goal = None)) =>
        \A alg \in Algorithms : results[alg].kind \notin {"return", "TypeError"}

(* C7: in the driver the grid that bfs and a_star read is the grid         *)
(* generate_maze produced: showing a path does not change it.              *)
C7_OverlayKeepsTheGrid ==
    (mode = "main" /\ pc \in {"call_bfs", "bfs", "call_a_star", "a_star"}) =>
        maze = generated

(* C8: when start equals goal, dfs and bfs return ([start], 1) and a_star  *)
(* returns ([start], 0).                                                   *)
C8_StartIsGoal ==
    \A alg \in Algorithms :
        (AtReturn(alg) /\ InGrid(maze, start) /\ start = goal) =>
            results[alg] = Return(<<start>>, IF alg = "a_star" THEN Num(0) ELSE Num(1))

(* All three calls have returned for a start that is the goal and has      *)
(* neighbours.                                                             *)
C8_Witness ==
    /\ mode = "call" /\ pc = "done"
    /\ InGrid(maze, start) /\ start = goal
    /\ get_neighbors(maze, start) # <<>>
    /\ results["dfs"].path = <<start>>
    /\ results["a_star"].cost = Num(0)

-----------------------------------------------------------------------------
(* C9, as claimed: on the example grid with start (0,0) and goal (2,2)     *)
(* each search returns one of the two paths the specification lists, of 5  *)
(* cells, and a_star reports cost 4.                                       *)
OnExample == maze = ExampleGrid /\ start = <<0, 0>> /\ goal = <<2, 2>>

ListedPaths ==
    { << <<0, 0>>, <<1, 0>>, <<1, 1>>, <<1, 2>>, <<2, 2>> >>,
      << <<0, 0>>, <<0, 1>>, <<1, 1>>, <<2, 1>>, <<2, 2>> >> }

C9_ExampleAsClaimed ==
    \A alg \in Algorithms :
        (AtReturn(alg) /\ OnExample) =>
            /\ results[alg].path \in ListedPaths
            /\ Len(results[alg].path) = 5
            /\ alg = "a_star" => results[alg].cost = Num(4)

(* C9, amended: on the example grid each search returns a path of 5 cells  *)
(* from (0,0) to (2,2): dfs and a_star the path through (0,1) and (1,2),   *)
(* bfs the path through (1,0) and (2,1); dfs and bfs report 5, a_star      *)
(* reports cost 4.                                                         *)
C9_Example ==
    \A alg \in Algorithms :
        (AtReturn(alg) /\ OnExample) =>
            /\ ValidPath(maze, results[alg].path, start, goal)
            /\ results[alg] =
                 CASE alg = "dfs" ->
                        Return(<< <<0, 0>>, <<0, 1>>, <<1, 1>>, <<1, 2>>, <<2, 2>> >>, Num(5))
                   [] alg = "bfs" ->
                        Return(<< <<0, 0>>, <<1, 0>>, <<1, 1>>, <<2, 1>>, <<2, 2>> >>, Num(5))
                   [] alg = "a_star" ->
                        Return(<< <<0, 0>>, <<0, 1>>, <<1, 1>>, <<1, 2>>, <<2, 2>> >>, Num(4))

(* The three searches have returned on the example.                        *)
C9_Witness ==
    /\ mode = "call" /\ pc = "done" /\ OnExample
    /\ \A alg \in Algorithms : Len(results[alg].path) = 5

-----------------------------------------------------------------------------
(* C10: no step of a call of dfs, bfs or a_star changes a label of the     *)
(* grid, whether the call returns a path or (None, 0).                     *)
C10_SearchLeavesTheGrid ==
    [][(pc \in {"call_dfs", "dfs", "call_bfs", "bfs", "call_a_star", "a_star"})
          => (maze' = maze)]_vars

(* The driver's a_star has returned a path over a grid with a numbered     *)
(* cell it has walked around.                                              *)
C10_Witness ==
    /\ mode = "main" /\ pc = "show_a_star"
    /\ results["a_star"].path # None
    /\ \E c \in Cells(maze) :
          Label(maze, c) \in {"2", "4"} /\ ~IsIn(c, results["a_star"].path)

-----------------------------------------------------------------------------
(* Which of the four orthogonal candidates of a the cell b is: 1 up,       *)
(* 2 down, 3 left, 4 right, and 0 when it is none of them.                 *)
Direction(a, b) ==
    CASE b = <<a[1] - 1, a[2]>> -> 1
      [] b = <<a[1] + 1, a[2]>> -> 2
      [] b = <<a[1], a[2] - 1>> -> 3
      [] b = <<a[1], a[2] + 1>> -> 4
      [] OTHER -> 0

(* C11: get_neighbors returns exactly the cells among up, down, left and   *)
(* right of the given cell that lie in the grid and do not carry the wall  *)
(* label, in that order; it reads the label of no coordinate outside the   *)
(* grid; and a second call with the same arguments returns the same        *)
(* sequence.                                                               *)
C11_NeighborsAsSpecified ==
    \A i \in 1..Len(results) :
        results[i].fn = "get_neighbors" =>
            LET r == results[i].returned
            IN  /\ \A k \in 1..Len(r) :
                      /\ Direction(start, r[k]) \in 1..4
                      /\ r[k] \in Cells(maze)
                      /\ Label(maze, r[k]) # Wall
                /\ \A b \in Cells(maze) :
                      (Direction(start, b) \in 1..4 /\ Label(maze, b) # Wall) => IsIn(b, r)
                /\ \A k, l \in 1..Len(r) :
                      k < l => Direction(start, r[k]) < Direction(start, r[l])
                /\ \A k \in 1..Len(subscripted(maze, start)) :
                      subscripted(maze, start)[k] \in Cells(maze)
                /\ r = results[1].returned

(* get_neighbors has been called twice on a cell that has one candidate    *)
(* outside the grid, one wall and two open cells next to it.               *)
C11_Witness ==
    /\ pc = "get_neighbors_again"
    /\ Len(results) = 2
    /\ Len(subscripted(maze, start)) = 3
    /\ Len(results[2].returned) = 2
    /\ Direction(start, results[2].returned[1]) = 2
    /\ Direction(start, results[2].returned[2]) = 3

-----------------------------------------------------------------------------
(* C12: when a_star returns a path, the cost it returns, cost_so_far[goal] *)
(* at the extraction of the goal, is the summed calculate_cost over the    *)
(* consecutive cells of that path, also in runs that extracted an entry    *)
(* for a cell after a cheaper cost had been recorded for it.               *)
C12_ReturnedCostIsPathCost ==
    (AtReturn("a_star") /\ results["a_star"].kind = "return"
                        /\ results["a_star"].path # None) =>
        results["a_star"].cost = PathCost(maze, results["a_star"].path)

(* a_star has returned a path of several moves after extracting, for some  *)
(* cell, first a cheaper entry and later a dearer, stale one.              *)
C12_Witness ==
    /\ pc = "done"
    /\ results["a_star"].kind = "return"
    /\ Len(results["a_star"].path) >= 3
    /\ \E i, j \in 1..Len(extracted) :
          /\ i < j
          /\ extracted[i][2] = extracted[j][2]
          /\ extracted[i][1] < extracted[j][1]

-----------------------------------------------------------------------------
(* The cells reached and the costs summed by the paths that extend, by     *)
(* non-wall moves to cells not in seen, a path that ends in c with summed  *)
(* cost v.                                                                 *)
RECURSIVE PathCosts(_, _, _, _)
PathCosts(m, c, seen, v) ==
    {<<c, v>>} \cup
    (IF c = None THEN {}
     ELSE UNION {PathCosts(m, b, seen \cup {b}, v + calculate_cost(m, c, b)) :
                    b \in {b \in Cells(m) \ seen : Move(m, c, b)}})

(* C13: during a run of a_star the cost-so-far map never loses an entry, a *)
(* recorded value changes only to a strictly smaller one, and every        *)
(* recorded value is the summed cost of a path from start to the cell.     *)
C13_CostMapIsMonotonic ==
    [][(pc = "a_star") =>
          /\ DOMAIN cost_so_far \subseteq DOMAIN cost_so_far'
          /\ \A c \in DOMAIN cost_so_far :
                cost_so_far'[c] # cost_so_far[c] => cost_so_far'[c] < cost_so_far[c]
          /\ (cost_so_far' # cost_so_far) =>
                {<<c, cost_so_far'[c]>> : c \in DOMAIN cost_so_far'}
                    \subseteq PathCosts(maze, start, {start}, Num(0))]_vars

(* a_star has returned after the cost recorded for some cell had been      *)
(* lowered: the cell was pushed twice with different priorities.           *)
C13_Witness ==
    /\ pc = "done"
    /\ results["a_star"].kind = "return"
    /\ Cardinality(DOMAIN cost_so_far) >= 5
    /\ \E i, j \in 1..Len(extracted) :
          /\ i < j
          /\ extracted[i][2] = extracted[j][2]
          /\ extracted[i][1] < extracted[j][1]
          /\ cost_so_far[extracted[i][2]] = extracted[i][1] - Num(heuristic(goal, extracted[i][2]))

-----------------------------------------------------------------------------
(* The positions in extracted of the entries taken while their cell was    *)
(* not yet visited: the first entry of each cell.                          *)
Expansions ==
    {i \in 1..Len(extracted) : \A j \in 1..(i - 1) : extracted[j][1] # extracted[i][1]}

(* C14: in a run of bfs the cells are expanded in non-decreasing order of  *)
(* their least number of moves from start, and the path an entry carries   *)
(* when its cell is expanded has that number of moves.                     *)
C14_BfsExpandsByDistance ==
    AtReturn("bfs") =>
        /\ \A i \in Expansions :
              Len(extracted[i][2]) - 1 = Distance(maze, start, extracted[i][1])
        /\ \A i, j \in Expansions :
              i < j => Distance(maze, start, extracted[i][1])
                         <= Distance(maze, start, extracted[j][1])

(* bfs has ended after expanding cells at three different distances and    *)
(* discarding entries of cells it had expanded before.                     *)
C14_Witness ==
    /\ mode = "call" /\ pc = "call_a_star"
    /\ Cardinality({Len(extracted[i][2]) : i \in Expansions}) >= 4
    /\ Cardinality(Expansions) >= 5
    /\ Len(extracted) > Cardinality(Expansions) + 2

-----------------------------------------------------------------------------
(* What an iteration that takes entry from a frontier and leaves rest does *)
(* to the frontier and to visited: an entry of a visited cell is dropped   *)
(* and nothing else changes; entries are pushed only for a cell that was   *)
(* not visited and is visited afterwards.                                  *)
ExpandsOnce(entry, rest, frontier_after) ==
    /\ entry[1] \in visited => (frontier_after = rest /\ visited' = visited)
    /\ frontier_after # rest =>
          /\ entry[1] \notin visited
          /\ entry[1] \in visited'
          /\ Len(frontier_after) > Len(rest)
          /\ SubSeq(frontier_after, 1, Len(rest)) = rest

(* C15: in dfs and bfs a cell can be in the frontier several times, but it *)
(* is expanded at most once per call: an entry taken for a visited cell is *)
(* discarded without pushing anything, an expansion marks its cell         *)
(* visited, and visited only grows.                                        *)
C15_ExpandedAtMostOnce ==
    [][/\ (pc = "dfs" /\ stack # <<>>) =>
             ExpandsOnce(stack[Len(stack)], SubSeq(stack, 1, Len(stack) - 1), stack')
       /\ (pc = "bfs" /\ queue # <<>>) =>
             ExpandsOnce(Head(queue), Tail(queue), queue')
       /\ (pc \in {"dfs", "bfs"}) => visited \subseteq visited']_vars

(* dfs is about to take an entry of a visited cell, has discarded one      *)
(* before, and holds some cell twice in its stack.                         *)
C15_Witness ==
    /\ pc = "dfs"
    /\ Len(stack) >= 3
    /\ stack[Len(stack)][1] \in visited
    /\ \E i, j \in 1..Len(stack) : i < j /\ stack[i][1] = stack[j][1]
    /\ Len(extracted) > Cardinality(Expansions)

-----------------------------------------------------------------------------
Greater(a, b) == IF a >= b THEN a ELSE b
Lesser(a, b) == IF a <= b THEN a ELSE b

(* The Manhattan distance of two cells.                                    *)
Manhattan(a, b) ==
    (Greater(a[1], b[1]) - Lesser(a[1], b[1])) + (Greater(a[2], b[2]) - Lesser(a[2], b[2]))

(* C16: heuristic is the Manhattan distance; it is 0 at the goal; it is    *)
(* consistent: for every neighbour n that get_neighbors returns for a      *)
(* cell, heuristic(goal, cell) <= calculate_cost(grid, cell, n) +          *)
(* heuristic(goal, n); and it is admissible: it never exceeds the least    *)
(* summed cost of the move sequences from the cell to the goal.            *)
C16_HeuristicIsConsistent ==
    (results # <<>> /\ results[1].fn = "heuristic") =>
        LET h == results[1].returned
            neighbors == get_neighbors(maze, start)
        IN  /\ h = Num(Manhattan(goal, start))
            /\ start = goal => h = Num(0)
            /\ \A k \in 1..Len(neighbors) :
                  h <= calculate_cost(maze, start, neighbors[k])
                         + Num(heuristic(goal, neighbors[k]))
            /\ goal \in Reachable(maze, start) => h <= MinCost(maze, start, goal)

(* heuristic has been called for a cell with neighbours from which the     *)
(* goal is several moves away and costs more than the estimate.            *)
C16_Witness ==
    /\ pc = "heuristic"
    /\ results[1].returned >= Num(3)
    /\ Len(get_neighbors(maze, start)) >= 2
    /\ goal \in Reachable(maze, start)
    /\ results[1].returned < MinCost(maze, start, goal)

-----------------------------------------------------------------------------
Numbered == ("1" :> 1) @@ ("2" :> 2) @@ ("3" :> 3) @@ ("4" :> 4)

(* C17: calculate_cost(grid, from, to) is n when the label of to is the    *)
(* numbered cost n of 1..4 and 1 for every other label, plus 0.5 exactly   *)
(* when from and to differ in row and in column; for a pair that           *)
(* get_neighbors produces there is no surcharge and the cost is an integer *)
(* from 1 to 4.                                                            *)
C17_CostOfAMove ==
    (results # <<>> /\ results[1].fn = "calculate_cost") =>
        LET cost == results[1].returned
            label == Label(maze, goal)
            base == IF label \in DOMAIN Numbered THEN Numbered[label] ELSE 1
            diagonal == start[1] # goal[1] /\ start[2] # goal[2]
        IN  /\ cost = Num(base) + (IF diagonal THEN 1 ELSE 0)
            /\ IsIn(goal, get_neighbors(maze, start)) =>
                  cost \in {Num(1), Num(2), Num(3), Num(4)}

(* calculate_cost has returned 3.5 for a diagonal pair that leaves a cell  *)
(* with another label.                                                     *)
C17_Witness ==
    /\ pc = "calculate_cost"
    /\ results[1].returned = Num(3) + 1
    /\ Label(maze, start) = "2"
    /\ Label(maze, goal) = "3"

-----------------------------------------------------------------------------
(* The columns of the given row of the grid that carry the marker.         *)
MarkedColumns(m, row) == {j \in 0..(Cols(m) - 1) : Label(m, <<row, j>>) = Marker}

Located(returned, row, columns, least) ==
    /\ (returned = None) <=> (columns = {})
    /\ returned # None =>
          /\ returned[1] = row
          /\ returned[2] \in columns
          /\ \A k \in columns : IF least THEN returned[2] <= k ELSE returned[2] >= k

(* C18: get_start_state returns (0, j) for the least column j of row 0     *)
(* that carries 'c', get_goal_state returns (last_row, j) for the greatest *)
(* column j of the last row that carries 'c'; each returns None exactly    *)
(* when its row holds no 'c'; neither changes the grid.                    *)
C18_StartAndGoalLocated ==
    \A i \in 1..Len(results) :
        /\ results[i].fn = "get_start_state" =>
              /\ Located(results[i].returned, 0, MarkedColumns(maze, 0), TRUE)
              /\ maze = generated
        /\ results[i].fn = "get_goal_state" =>
              /\ Located(results[i].returned, Rows(maze) - 1,
                         MarkedColumns(maze, Rows(maze) - 1), FALSE)
              /\ maze = generated

(* Both locators have been called on a grid of several rows whose last row *)
(* has two markers; the first row has none.                                *)
C18_Witness ==
    /\ pc = "get_goal_state"
    /\ Len(results) = 2
    /\ Rows(maze) >= 2
    /\ results[1].returned = None
    /\ Cardinality(MarkedColumns(maze, Rows(maze) - 1)) >= 2
    /\ results[2].returned = <<Rows(maze) - 1, Cols(maze) - 1>>

-----------------------------------------------------------------------------
(* No cell occurs twice in p.                                              *)
Simple(p) == \A i, j \in 1..Len(p) : i # j => p[i] # p[j]

Frontier == IF pc = "dfs" THEN stack ELSE IF pc = "bfs" THEN queue ELSE <<>>

ReturnedPathsAreSimple ==
    \A alg \in Algorithms :
        (AtReturn(alg) /\ results[alg].kind = "return") => Simple(results[alg].path)

(* C19, as claimed: every path dfs, bfs or a_star returns is simple, and   *)
(* so is the path of every frontier entry at every step of dfs and bfs.    *)
C19_AllPathsSimpleAsClaimed ==
    /\ ReturnedPathsAreSimple
    /\ \A i \in 1..Len(Frontier) : Simple(Frontier[i][2])

(* C19, amended: every path dfs, bfs or a_star returns is simple.  In the  *)
(* frontier of dfs and bfs the path of an entry is simple up to its last   *)
(* cell, and simple altogether when the entry's cell is not yet visited;   *)
(* the last cell repeats an earlier one only in entries of visited cells,  *)
(* which are dropped when taken.                                           *)
C19_PathsSimple ==
    /\ ReturnedPathsAreSimple
    /\ \A i \in 1..Len(Frontier) :
          LET path == Frontier[i][2]
          IN  /\ Simple(SubSeq(path, 1, Len(path) - 1))
              /\ Frontier[i][1] \notin visited => Simple(path)

(* The stack of dfs holds an entry whose path returns to a visited cell    *)
(* and an entry of an unvisited cell with a path of several cells.         *)
C19_Witness ==
    /\ pc = "dfs"
    /\ \E i \in 1..Len(stack) : ~Simple(stack[i][2]) /\ stack[i][1] \in visited
    /\ \E i \in 1..Len(stack) : stack[i][1] \notin visited /\ Len(stack[i][2]) >= 4

-----------------------------------------------------------------------------
(* The entry's cell has a recorded cost below the summed cost of the       *)
(* entry's own path.                                                       *)
Stale(entry) ==
    /\ entry[2] \in DOMAIN cost_so_far
    /\ cost_so_far[entry[2]] < PathCost(maze, entry[3])

(* The entries of the queue after an iteration that were not left over     *)
(* from the queue before it.                                               *)
PushedBy(before, after) ==
    {after[i] : i \in {i \in 1..Len(after) : ~IsIn(after[i], Tail(before))}}

(* C20: in a run of a_star the priorities of the entries extracted one     *)
(* after the other never decrease, every entry pushed while an extracted   *)
(* entry is expanded has at least that entry's priority, and a stale       *)
(* entry, extracted when its cell has a recorded cost below the cost of    *)
(* the entry's path, pushes nothing and records nothing.                   *)
C20_PrioritiesNeverDecrease ==
    [][(pc = "a_star" /\ pqueue # <<>>) =>
          /\ extracted # <<>> => extracted[Len(extracted)][1] <= Head(pqueue)[1]
          /\ \A entry \in PushedBy(pqueue, pqueue') : Head(pqueue)[1] <= entry[1]
          /\ Len(pqueue') = Len(pqueue) - 1 + Cardinality(PushedBy(pqueue, pqueue'))
          /\ Stale(Head(pqueue)) =>
                (pqueue' = Tail(pqueue) /\ cost_so_far' = cost_so_far)]_vars

(* a_star has just taken a stale entry of a cell with neighbours, after    *)
(* entries of lower priorities, and goes on.                               *)
C20_Witness ==
    /\ pc = "a_star"
    /\ Len(extracted) >= 4
    /\ extracted[1][1] < extracted[Len(extracted)][1]
    /\ LET last == extracted[Len(extracted)]
       IN  /\ last[2] # goal
           /\ cost_so_far[last[2]] < PathCost(maze, last[3])
           /\ Len(get_neighbors(maze, last[2])) >= 2
    /\ pqueue # <<>>

====
